---------------------------- MODULE Spec2Model ----------------------------
(***************************************************************************)
(* Model of the AutoWebPConverter component                                *)
(* (src/app/components/quality-selector.tsx): the `files` registry, the    *)
(* per-batch conversion loop of handleFilesSelected, the convertToWebP     *)
(* pipeline, removeFile, "Clean All", the download link and the effect     *)
(* that revokes object URLs.                                               *)
(*                                                                         *)
(* React state.  `files` is the state of the last committed render: it is  *)
(* what every closure of that render reads (files.find in removeFile,      *)
(* files.forEach in "Clean All" and in the effect cleanup, the rendered    *)
(* job rows).  setFiles(updater) puts an update on `queue`; a commit       *)
(* applies the queued updates in order (the updater form receives the      *)
(* state left by the update before it).  Updates issued in a user event    *)
(* (file selection, click) are committed at the end of that event, so the  *)
(* actions of user events commit.  Updates issued after an await (the      *)
(* continuation of handleFilesSelected) are committed by a later task of   *)
(* the scheduler: action Render.  A user event that runs before that task  *)
(* reads the `files` of the last commit.  A commit in a user event         *)
(* commits the waiting updates with it: the commit that would show the     *)
(* event's own update first revokes no handle that this one does not.      *)
(***************************************************************************)
EXTENDS Integers, Sequences, FiniteSets

\* Bounds of the model.
MaxFiles == 2      \* File objects selected over the whole run
MaxSel   == 2      \* files in one selection (one change / drop event)

VARIABLES
    files,      \* useState<ConvertedFile[]>: state of the last committed render
    queue,      \* setFiles updates issued and not yet committed
    batches,    \* one entry per running handleFilesSelected call: its newFiles
    revoked,    \* output object URLs URL.revokeObjectURL was called on
    revokedAgain, \* those it was called on when they were revoked already
    nextUrl,    \* next object URL URL.createObjectURL(blob) returns
    nextFid,    \* next File object of a selection
    mounted,    \* the component is mounted
    link,       \* href of the last download link clicked (0: none)
    quality,    \* useState(85): the quality setting of the last committed render
    name,       \* originalFile.name of the row whose Download button is clicked
    download,   \* link.download the click handler computed for `name`
    shown,      \* what QualitySelector rendered for its quality prop
    run         \* one call of convertToWebP(file, quality) and its promise

\* The state of the component and of its running handlers.
main == <<files, queue, batches, revoked, revokedAgain, nextUrl, nextFid, mounted, link>>

\* The state the handlers of the file list leave alone.
aside == <<quality, name, download, shown, run>>

vars == <<files, queue, batches, revoked, revokedAgain, nextUrl, nextFid, mounted, link,
          quality, name, download, shown, run>>

\* The values of Math.random().toString(36).substr(2, 9).  Ids are only
\* compared with ===: what matters of a new id is which ids of the state it
\* equals, and MaxFiles values give every such pattern.
IdSet   == 1..MaxFiles
Types   == {"image/png", "text/plain"}

NoUrl  == 0
NoSize == 0
NoErr  == "none"

\* IsImage without the test of the media type: every file is accepted.
AnyType(type) == type \in Types

\* file.type.startsWith("image/")
IsImage(type) == type = "image/png"

\* The quality slider: min={0} max={100}, and useState(85).
MinQuality     == 0
MaxQuality     == 100
DefaultQuality == 85
Quality == MinQuality..MaxQuality

\* The slider positions the quality setting is moved between.
Settings == {50, DefaultQuality}

Max2(x, y) == IF x >= y THEN x ELSE y
Min2(x, y) == IF x <= y THEN x ELSE y

\* EffectiveQuality without the subtraction: quality / 100.
EffectiveQualityPlain(q) == Max2(10 * q, 0)

\* Math.max(quality / 100 - 0.001, 0), in thousandths.
EffectiveQuality(q) == Max2(10 * q - 1, 0)

\* QualityLabel with the tier bounds taken inclusive (quality <= 50, <= 80).
QualityLabelInclusive(q) ==
    IF q <= 50 THEN "Low" ELSE IF q <= 80 THEN "Average" ELSE "High"

\* quality < 50 ? 'Low' : quality < 80 ? 'Average' : 'High'
QualityLabel(q) ==
    IF q < 50 THEN "Low" ELSE IF q < 80 THEN "Average" ELSE "High"

\* Math.min(quality, 99.9), in tenths.
DisplayValue(q) == Min2(10 * q, 999)

\* File names are sequences of characters.
Chars   == {"a", "b", "."}
MaxName == 4
Webp    == <<".", "w", "e", "b", "p">>

\* The index of the first "." of s; Len(s) + 1 when s has none.
FirstDot(s) ==
    IF \E i \in DOMAIN s : s[i] = "."
    THEN CHOOSE i \in DOMAIN s : s[i] = "." /\ \A k \in 1..(i - 1) : s[k] # "."
    ELSE Len(s) + 1

\* name.split(".")[0]
SplitFirst(s) == SubSeq(s, 1, FirstDot(s) - 1)

\* `${file.originalFile.name.split(".")[0]}.webp`
DownloadName(s) == SplitFirst(s) \o Webp

\* Nothing rendered, nothing clicked, no call made.
NoName  == <<>>
NoShown == [label |-> "", display |-> 0]
NoRun   == [type |-> "", loads |-> FALSE, ctx |-> FALSE, throws |-> FALSE,
            blob |-> FALSE, quality |-> 0, stage |-> "idle", settled |-> <<>>,
            toBlobQuality |-> 0]

-----------------------------------------------------------------------------
\* interface ConvertedFile of a job created by handleFilesSelected
NewJob(id, file) ==
    [id |-> id, originalFile |-> file, originalType |-> file.type,
     status |-> "converting", convertedUrl |-> NoUrl, convertedSize |-> NoSize,
     error |-> NoErr]

\* The object URLs of the converted results held by a files array.
Urls(fs) == {fs[i].convertedUrl : i \in DOMAIN fs} \ {NoUrl}

\* URL.revokeObjectURL called once for every handle of S: rel is the pair of
\* the handles revoked and of the handles revoked when revoked already.
Revoke(rel, S) == <<rel[1] \cup S, rel[2] \cup (rel[1] \cap S)>>

\* The revocations rel recorded.
Revoked(rel) == revoked' = rel[1] /\ revokedAgain' = rel[2]

\* blob.size of the blob the encoder gives for a file: the encoder is
\* deterministic, the size of the result of file k is a positive number.
BlobSize(file) == file.fid

\* MarkConverted with the comparison of ids inverted (f.id !== id).
MarkConvertedOthers(prev, id, url, size) ==
    [i \in DOMAIN prev |->
        IF prev[i].id # id
        THEN [prev[i] EXCEPT !.status = "converted", !.convertedUrl = url,
                             !.convertedSize = size]
        ELSE prev[i]]

\* The updater of setFiles on success: prev.map(f => f.id === id ? {...} : f)
MarkConverted(prev, id, url, size) ==
    [i \in DOMAIN prev |->
        IF prev[i].id = id
        THEN [prev[i] EXCEPT !.status = "converted", !.convertedUrl = url,
                             !.convertedSize = size]
        ELSE prev[i]]

\* MarkError without `status: "error"`: only the reason is stored.
MarkErrorKeepsStatus(prev, id, err) ==
    [i \in DOMAIN prev |-> IF prev[i].id = id THEN [prev[i] EXCEPT !.error = err]
                                              ELSE prev[i]]

\* The updater of setFiles on failure: prev.map(f => f.id === id ? {...} : f)
MarkError(prev, id, err) ==
    [i \in DOMAIN prev |->
        IF prev[i].id = id
        THEN [prev[i] EXCEPT !.status = "error", !.error = err]
        ELSE prev[i]]

\* prev.filter(f => f.id !== id)
FilterOut(prev, id) == SelectSeq(prev, LAMBDA f : f.id # id)

\* ApplyUpdate with the new jobs put before the old ones ([...newFiles, ...prev]).
ApplyUpdatePrepend(u, prev) ==
    CASE u.op = "append"    -> u.jobs \o prev
      [] u.op = "converted" -> MarkConverted(prev, u.id, u.url, u.size)
      [] u.op = "error"     -> MarkError(prev, u.id, u.err)
      [] u.op = "filter"    -> FilterOut(prev, u.id)
      [] u.op = "set"       -> u.value

\* One setFiles update applied to the state before it.
ApplyUpdate(u, prev) ==
    CASE u.op = "append"    -> prev \o u.jobs
      [] u.op = "converted" -> MarkConverted(prev, u.id, u.url, u.size)
      [] u.op = "error"     -> MarkError(prev, u.id, u.err)
      [] u.op = "filter"    -> FilterOut(prev, u.id)
      [] u.op = "set"       -> u.value

\* The queued updates applied in the order they were issued.
RECURSIVE ApplyAll(_, _)
ApplyAll(q, prev) ==
    IF q = <<>> THEN prev ELSE ApplyAll(Tail(q), ApplyUpdate(Head(q), prev))

\* setFiles: on an unmounted component the update is dropped.
SetFiles(q, u) == IF mounted THEN Append(q, u) ELSE q

-----------------------------------------------------------------------------
\* StartFrom without the await in the loop: every job from j on is started.
StartAll(pipe, j, ctx, q) ==
    [pipe |-> [k \in DOMAIN pipe |->
                  IF k >= j /\ pipe[k].st = "waiting"
                  THEN [pipe[k] EXCEPT !.st = "loading", !.ctx = ctx]
                  ELSE pipe[k]],
     queue |-> q]

\* StartFrom with the quality read from the state when the job is started.
RECURSIVE StartFromCurrentQuality(_, _, _, _)
StartFromCurrentQuality(pipe, j, ctx, q) ==
    IF j > Len(pipe) THEN [pipe |-> pipe, queue |-> q]
    ELSE IF ~IsImage(pipe[j].originalFile.type)
    THEN StartFromCurrentQuality([pipe EXCEPT ![j].st = "done"], j + 1, ctx,
                   SetFiles(q, [op |-> "error", id |-> pipe[j].id,
                                err |-> "Unsupported file format"]))
    ELSE [pipe |-> [pipe EXCEPT ![j].st = "loading", ![j].ctx = ctx,
                                ![j].quality = quality],
          queue |-> q]

\* The for ... await loop of handleFilesSelected reaching job j of newFiles:
\* convertToWebP runs its executor at once.  A file that is no image is
\* rejected there, the catch issues the error update and the loop goes on;
\* otherwise the image starts loading, ctx being what getContext("2d") gave.
RECURSIVE StartFrom(_, _, _, _)
StartFrom(pipe, j, ctx, q) ==
    IF j > Len(pipe) THEN [pipe |-> pipe, queue |-> q]
    ELSE IF ~IsImage(pipe[j].originalFile.type)
    THEN StartFrom([pipe EXCEPT ![j].st = "done"], j + 1, ctx,
                   SetFiles(q, [op |-> "error", id |-> pipe[j].id,
                                err |-> "Unsupported file format"]))
    ELSE [pipe |-> [pipe EXCEPT ![j].st = "loading", ![j].ctx = ctx],
          queue |-> q]

\* A call of handleFilesSelected that has not returned yet.
Running(pipe) == \E j \in DOMAIN pipe : pipe[j].st # "done"

RemoveAt(s, b) == [k \in 1..(Len(s) - 1) |-> IF k < b THEN s[k] ELSE s[k + 1]]

\* A commit: the effect cleanup of the previous render revokes every
\* convertedUrl of the previous `files`, then `files` is the new state.
Commit(q) ==
    /\ files' = ApplyAll(q, files)
    /\ Revoked(Revoke(<<revoked, revokedAgain>>, Urls(files)))

InitMain ==
    /\ files = <<>>
    /\ queue = <<>>
    /\ batches = <<>>
    /\ revoked = {}
    /\ revokedAgain = {}
    /\ nextUrl = 1
    /\ nextFid = 1
    /\ mounted = TRUE
    /\ link = NoUrl

Init ==
    /\ InitMain
    /\ quality = DefaultQuality
    /\ name = NoName
    /\ download = NoName
    /\ shown = NoShown
    /\ run = NoRun

\* The ids the state holds: of the jobs of the registry, of the updates
\* issued and of the jobs of the running batches.
UsedIds ==
    {files[i].id : i \in DOMAIN files}
       \cup {queue[k].id : k \in DOMAIN queue}
       \cup UNION {{batches[b][j].id : j \in DOMAIN batches[b]} : b \in DOMAIN batches}

\* The number that stands for an id equal to none of U: the least not in U.
Fresh(U) == CHOOSE n \in 1..(MaxFiles + 1) : n \notin U /\ \A m \in 1..(n - 1) : m \in U

\* Math.random() gives each new job an id equal to an id of the state, to the
\* id of an earlier job of the selection, or to none of them.
RandomIds(ids) ==
    \A i \in DOMAIN ids :
        LET U == UsedIds \cup {ids[k] : k \in 1..(i - 1)}
        IN  ids[i] \in U \cup {Fresh(U)}

\* handleFileInputChange / handleDrop -> handleFilesSelected(selectedFiles):
\* types are the declared media types of the selected files, ids the values
\* Math.random() gives the new jobs, ctx what getContext gives the first one.
HandleFilesSelected(types, ids, ctx) ==
    LET n == Len(types)
        selectedFiles == [i \in 1..n |-> [fid |-> nextFid + i - 1, type |-> types[i]]]
        imageFiles == SelectSeq(selectedFiles, LAMBDA f : IsImage(f.type))
        newFiles == [i \in 1..Len(imageFiles) |-> NewJob(ids[i], imageFiles[i])]
        pipe == [i \in 1..Len(imageFiles) |->
                    [id |-> ids[i], originalFile |-> imageFiles[i],
                     st |-> "waiting", ctx |-> FALSE, quality |-> quality]]
        started == StartFrom(pipe, 1, ctx, <<>>)
    IN  /\ mounted
        /\ nextFid + n - 1 <= MaxFiles
        /\ nextFid' = nextFid + n
        /\ IF imageFiles = <<>>
           THEN UNCHANGED <<files, queue, batches, revoked, revokedAgain>>
           ELSE /\ Len(ids) = Len(imageFiles)
                /\ RandomIds(ids)
                /\ Commit(Append(queue, [op |-> "append", jobs |-> newFiles]))
                /\ queue' = started.queue
                /\ batches' = IF Running(started.pipe)
                               THEN Append(batches, started.pipe) ELSE batches
        /\ UNCHANGED <<nextUrl, mounted, link, aside>>

\* Continue without the setFiles of the job that resolved: the loop goes on
\* to the next job at once.
ContinueDropsUpdate(b, j, u, ctx) ==
    LET done == [batches[b] EXCEPT ![j].st = "done"]
        next == StartFrom(done, j + 1, ctx, queue)
    IN  /\ batches' = IF Running(next.pipe)
                       THEN [batches EXCEPT ![b] = next.pipe]
                       ELSE RemoveAt(batches, b)
        /\ queue' = next.queue

\* The continuation of `await convertToWebP(...)` for job j of batch b: the
\* update u is issued, then the loop starts the next job of the batch.
Continue(b, j, u, ctx) ==
    LET done == [batches[b] EXCEPT ![j].st = "done"]
        next == StartFrom(done, j + 1, ctx, SetFiles(queue, u))
    IN  /\ batches' = IF Running(next.pipe)
                       THEN [batches EXCEPT ![b] = next.pipe]
                       ELSE RemoveAt(batches, b)
        /\ queue' = next.queue

ErrorUpdate(b, j, msg) == [op |-> "error", id |-> batches[b][j].id, err |-> msg]

\* img.onload of job j of batch b.  threw: a statement of the try block threw.
ImgOnload(b, j, threw, ctx) ==
    /\ batches[b][j].st = "loading"
    /\ IF threw
       THEN Continue(b, j, ErrorUpdate(b, j, "Thrown"), ctx)
       ELSE IF batches[b][j].ctx
       THEN /\ batches' = [batches EXCEPT ![b][j].st = "encoding"]
            /\ UNCHANGED queue
       ELSE Continue(b, j, ErrorUpdate(b, j, "Failed to get drawing context"), ctx)
    /\ UNCHANGED <<files, revoked, revokedAgain, nextUrl, nextFid, mounted, link, aside>>

\* img.onerror of job j of batch b.
ImgOnerror(b, j, ctx) ==
    /\ batches[b][j].st = "loading"
    /\ Continue(b, j, ErrorUpdate(b, j, "Failed to load image"), ctx)
    /\ UNCHANGED <<files, revoked, revokedAgain, nextUrl, nextFid, mounted, link, aside>>

\* The callback of canvas.toBlob of job j of batch b.  blob = FALSE: blob is
\* null.  URL.createObjectURL(blob) gives a new handle.
ToBlobCallback(b, j, blob, ctx) ==
    /\ batches[b][j].st = "encoding"
    /\ IF blob
       THEN /\ nextUrl' = nextUrl + 1
            /\ Continue(b, j, [op |-> "converted", id |-> batches[b][j].id,
                               url |-> nextUrl,
                               size |-> BlobSize(batches[b][j].originalFile)], ctx)
       ELSE /\ UNCHANGED nextUrl
            /\ Continue(b, j, ErrorUpdate(b, j, "Failed to convert image to WebP"), ctx)
    /\ UNCHANGED <<files, revoked, revokedAgain, nextFid, mounted, link, aside>>

\* The scheduler's render of the updates issued after an await.
Render ==
    /\ mounted
    /\ queue # <<>>
    /\ Commit(queue)
    /\ queue' = <<>>
    /\ UNCHANGED <<batches, nextUrl, nextFid, mounted, link, aside>>

\* removeFile(files[i].id): the X button of the rendered row i.
RemoveFile(i) ==
    LET id == files[i].id
        found == {k \in DOMAIN files : files[k].id = id}
        fileToRemove == files[CHOOSE k \in found : \A m \in found : k <= m]
        rel == IF fileToRemove.convertedUrl # NoUrl
               THEN Revoke(<<revoked, revokedAgain>>, {fileToRemove.convertedUrl})
               ELSE <<revoked, revokedAgain>>
    IN  /\ mounted
        /\ i \in DOMAIN files
        /\ files' = ApplyAll(Append(queue, [op |-> "filter", id |-> id]), files)
        /\ Revoked(Revoke(rel, Urls(files)))
        /\ queue' = <<>>
        /\ UNCHANGED <<batches, nextUrl, nextFid, mounted, link, aside>>

\* CleanAll without setFiles([]): the handles are revoked, the jobs stay.
CleanAllKeepsJobs ==
    /\ mounted
    /\ Len(files) > 0
    /\ files' = ApplyAll(queue, files)
    /\ Revoked(Revoke(Revoke(<<revoked, revokedAgain>>, Urls(files)), Urls(files)))
    /\ queue' = <<>>
    /\ UNCHANGED <<batches, nextUrl, nextFid, mounted, link, aside>>

\* The "Clean All" button, rendered when files.length > 0.
CleanAll ==
    /\ mounted
    /\ Len(files) > 0
    /\ files' = ApplyAll(Append(queue, [op |-> "set", value |-> <<>>]), files)
    /\ Revoked(Revoke(Revoke(<<revoked, revokedAgain>>, Urls(files)), Urls(files)))
    /\ queue' = <<>>
    /\ UNCHANGED <<batches, nextUrl, nextFid, mounted, link, aside>>

\* The Download button of the rendered row i.
Download(i) ==
    /\ mounted
    /\ i \in DOMAIN files
    /\ files[i].status = "converted"
    /\ files[i].convertedUrl # NoUrl
    /\ link' = files[i].convertedUrl
    /\ UNCHANGED <<files, queue, batches, revoked, revokedAgain, nextUrl, nextFid, mounted, aside>>

\* The component unmounts: the effect cleanup runs and the state is gone.
Unmount ==
    /\ mounted
    /\ mounted' = FALSE
    /\ Revoked(Revoke(<<revoked, revokedAgain>>, Urls(files)))
    /\ files' = <<>>
    /\ queue' = <<>>
    /\ UNCHANGED <<batches, nextUrl, nextFid, link, aside>>

\* Sequences over S of length lo..hi.
SeqsOf(S, lo, hi) == UNION {[1..n -> S] : n \in lo..hi}

Next ==
    \/ \E types \in SeqsOf(Types, 1, MaxSel) :
          \E ids \in [1..Len(SelectSeq(types, IsImage)) -> IdSet], ctx \in BOOLEAN :
             HandleFilesSelected(types, ids, ctx)
    \/ \E b \in DOMAIN batches : \E j \in DOMAIN batches[b] :
          \E threw \in BOOLEAN, ctx \in BOOLEAN : ImgOnload(b, j, threw, ctx)
    \/ \E b \in DOMAIN batches : \E j \in DOMAIN batches[b] :
          \E ctx \in BOOLEAN : ImgOnerror(b, j, ctx)
    \/ \E b \in DOMAIN batches : \E j \in DOMAIN batches[b] :
          \E blob \in BOOLEAN, ctx \in BOOLEAN : ToBlobCallback(b, j, blob, ctx)
    \/ Render
    \/ \E i \in DOMAIN files : RemoveFile(i)
    \/ CleanAll
    \/ \E i \in DOMAIN files : Download(i)
    \/ Unmount

Spec == Init /\ [][Next]_vars

\* Decode and encode of every started job resolve, and the scheduler renders
\* the updates issued: the primitives of the host and the task queue.
Decode ==
    \E b \in DOMAIN batches : \E j \in DOMAIN batches[b] : \E ctx \in BOOLEAN :
        \/ \E threw \in BOOLEAN : ImgOnload(b, j, threw, ctx)
        \/ ImgOnerror(b, j, ctx)

Encode ==
    \E b \in DOMAIN batches : \E j \in DOMAIN batches[b] :
        \E blob \in BOOLEAN, ctx \in BOOLEAN : ToBlobCallback(b, j, blob, ctx)

FairSpec ==
    Init /\ [][Next]_vars /\ WF_vars(Decode) /\ WF_vars(Encode) /\ WF_vars(Render)

-----------------------------------------------------------------------------
\* onQualityChange={setQuality}: the slider is moved to v.  The render it
\* causes leaves `files` as it is, so no effect cleanup runs.
SetQuality(v) ==
    /\ mounted
    /\ v # quality
    /\ quality' = v
    /\ UNCHANGED <<main, name, download, shown, run>>

\* The component with its quality slider in use.
NextQ ==
    \/ Next
    \/ \E v \in Settings : SetQuality(v)

SpecQ == Init /\ [][NextQ]_vars

-----------------------------------------------------------------------------
\* The click handler of a Download button, on every file name.
Names == SeqsOf(Chars, 0, MaxName)

InitDownload ==
    /\ InitMain
    /\ quality = DefaultQuality
    /\ name \in Names
    /\ download = NoName
    /\ shown = NoShown
    /\ run = NoRun

DownloadClick ==
    /\ download = NoName
    /\ download' = DownloadName(name)
    /\ UNCHANGED <<main, quality, name, shown, run>>

NextDownload == DownloadClick

SpecDownload == InitDownload /\ [][NextDownload]_vars

-----------------------------------------------------------------------------
\* QualitySelector rendered with every quality prop of the slider's range.
InitSelector ==
    /\ InitMain
    /\ quality \in Quality
    /\ name = NoName
    /\ download = NoName
    /\ shown = NoShown
    /\ run = NoRun

RenderSelector ==
    /\ shown = NoShown
    /\ shown' = [label |-> QualityLabel(quality), display |-> DisplayValue(quality)]
    /\ UNCHANGED <<main, quality, name, download, run>>

NextSelector == RenderSelector

SpecSelector == InitSelector /\ [][NextSelector]_vars

-----------------------------------------------------------------------------
\* One call of convertToWebP(file, quality).  type is file.type; loads: the
\* image decodes (onload fires, else onerror); ctx: getContext("2d") gave a
\* context; throws: a statement of the try block of onload throws; blob:
\* toBlob hands a blob to its callback (else null).  settled lists the calls
\* of resolve ("resolve") and reject (the message) in order.
Runs ==
    [type : Types, loads : BOOLEAN, ctx : BOOLEAN, throws : BOOLEAN,
     blob : BOOLEAN, quality : Quality, stage : {"called"}, settled : {<<>>},
     toBlobQuality : {0}]

InitConvert ==
    /\ InitMain
    /\ quality = DefaultQuality
    /\ name = NoName
    /\ download = NoName
    /\ shown = NoShown
    /\ run \in Runs

Settle(r, outcome) == [r EXCEPT !.stage = "settled", !.settled = Append(@, outcome)]

\* Executor without the `return` after reject(...): the image is loaded anyway.
ExecutorNoReturn ==
    /\ run.stage = "called"
    /\ run' = IF ~IsImage(run.type)
              THEN [Settle(run, "Unsupported file format") EXCEPT !.stage = "loading"]
              ELSE [run EXCEPT !.stage = "loading"]
    /\ UNCHANGED <<main, quality, name, download, shown>>

\* The executor of the promise: the media type check, then img.src = ...
Executor ==
    /\ run.stage = "called"
    /\ run' = IF ~IsImage(run.type)
              THEN Settle(run, "Unsupported file format")
              ELSE [run EXCEPT !.stage = "loading"]
    /\ UNCHANGED <<main, quality, name, download, shown>>

\* img.onload
Onload ==
    /\ run.stage = "loading"
    /\ run.loads
    /\ run' = IF run.throws THEN Settle(run, "Thrown")
              ELSE IF run.ctx
              THEN [run EXCEPT !.stage = "encoding",
                               !.toBlobQuality = EffectiveQuality(run.quality)]
              ELSE Settle(run, "Failed to get drawing context")
    /\ UNCHANGED <<main, quality, name, download, shown>>

\* img.onerror
Onerror ==
    /\ run.stage = "loading"
    /\ ~run.loads
    /\ run' = Settle(run, "Failed to load image")
    /\ UNCHANGED <<main, quality, name, download, shown>>

\* The callback of canvas.toBlob
ToBlobDone ==
    /\ run.stage = "encoding"
    /\ run' = IF run.blob THEN Settle(run, "resolve")
              ELSE Settle(run, "Failed to convert image to WebP")
    /\ UNCHANGED <<main, quality, name, download, shown>>

NextConvert ==
    \/ Executor
    \/ Onload
    \/ Onerror
    \/ ToBlobDone

SpecConvert == InitConvert /\ [][NextConvert]_vars

-----------------------------------------------------------------------------
\* The registry with the updates issued so far applied: what the updater of
\* the next setFiles receives as prev.
Registry == ApplyAll(queue, files)

\* The object URLs URL.createObjectURL(blob) has returned.
Allocated == 1..(nextUrl - 1)

Fids == 1..MaxFiles

\* The rows of fs that hold the job of file f.
RowsOf(fs, f) == {i \in DOMAIN fs : fs[i].originalFile.fid = f}

HasId(fs, id) == \E i \in DOMAIN fs : fs[i].id = id

DistinctIds(fs) == \A i, k \in DOMAIN fs : fs[i].id = fs[k].id => i = k

InFlight(st) == st \in {"loading", "encoding"}

-----------------------------------------------------------------------------
\* C1: no output handle is released more than once, whichever of removeFile,
\* "Clean All" and the effect cleanup released it first.
C1_ReleasedAtMostOnce == revokedAgain = {}

\* C2: every job of the registry with status converted holds an output handle
\* that has not been released, so its Download button reads a live handle.
C2_ConvertedHandleLive ==
    \A i \in DOMAIN files :
        files[i].status = "converted" => files[i].convertedUrl \notin revoked

\* C3: a selection with N image files adds exactly N jobs, and every job that
\* is converting in the registry later is converted, failed or removed: no
\* job stays converting once decode and encode resolve.
C3_AllJobsReachTerminal ==
    /\ [][nextFid' # nextFid =>
            \A types \in [1..(nextFid' - nextFid) -> Types] :
               \A ids \in [1..Len(SelectSeq(types, IsImage)) -> IdSet], ctx \in BOOLEAN :
                  HandleFilesSelected(types, ids, ctx) =>
                     Len(files') = Len(Registry) + Len(SelectSeq(types, IsImage))]_vars
    /\ \A f \in Fids :
          (\E i \in RowsOf(files, f) : files[i].status = "converting")
             ~> ~(\E i \in RowsOf(files, f) : files[i].status = "converting")

\* C3 witness: two jobs were created, every conversion has resolved and both
\* jobs show a terminal status.
C3_Witness ==
    /\ Len(files) = 2
    /\ batches = <<>>
    /\ \A i \in DOMAIN files : files[i].status \in {"converted", "error"}

\* C4: once every conversion has completed and no job is left, every output
\* handle a conversion allocated has been released.
C4_NoHandleLeftUnreleased ==
    (batches = <<>> /\ queue = <<>> /\ files = <<>>) => Allocated \subseteq revoked

\* C5: a render of updates that are all addressed to ids no longer in the
\* registry leaves the registry as it was: same jobs, same order, nothing
\* resurrected; an empty registry stays empty.
C5_UpdateOfRemovedIdIsNoOp ==
    [][(Render /\ \A k \in DOMAIN queue : ~HasId(files, queue[k].id))
          => files' = files]_vars

\* C5 witness: a completion of a removed job is waiting to be rendered while
\* another job is still in the registry.
C5_Witness ==
    /\ mounted
    /\ queue # <<>>
    /\ files # <<>>
    /\ \A k \in DOMAIN queue : ~HasId(files, queue[k].id)

\* C6 (for registries whose ids are distinct): removeFile of the job of row i
\* releases the handle that job has in the registry, also when the update that
\* gave it the handle was issued just before, removes that job only and
\* leaves the other jobs and their order as they were.
C6_RemoveReleasesAndRemovesOne ==
    [][\A i \in DOMAIN files :
          (RemoveFile(i) /\ DistinctIds(Registry)) =>
             LET f == files[i].originalFile.fid
             IN  /\ \A k \in RowsOf(Registry, f) :
                       Registry[k].convertedUrl # NoUrl
                          => Registry[k].convertedUrl \in revoked'
                 /\ files' = SelectSeq(Registry, LAMBDA x : x.originalFile.fid # f)]_vars

C8_NoJobWaits ==
    \A b \in DOMAIN batches : \A j \in DOMAIN batches[b] : batches[b][j].st # "waiting"

\* C8 amended: the jobs of a batch are converted one at a time in selection
\* order: one job of a running batch is in flight, the jobs before it are
\* done and the jobs after it wait.
C8_OneJobOfABatchInFlight ==
    \A b \in DOMAIN batches :
        \E k \in DOMAIN batches[b] :
            \A j \in DOMAIN batches[b] :
                /\ j < k => batches[b][j].st = "done"
                /\ j = k => InFlight(batches[b][j].st)
                /\ j > k => batches[b][j].st = "waiting"

\* C8 witness: the second job of a batch is in flight, the first is done.
C8_Witness ==
    \E b \in DOMAIN batches :
        /\ Len(batches[b]) = 2
        /\ batches[b][1].st = "done"
        /\ InFlight(batches[b][2].st)

\* C9: a selection appends one converting job without result or reason per
\* image file, in selection order, after the jobs of the registry, which keep
\* their fields and positions; the registry is always in creation order.
C9_AppendInSelectionOrder ==
    /\ [](\A i, k \in DOMAIN files :
             i < k => files[i].originalFile.fid < files[k].originalFile.fid)
    /\ [][\A types \in [1..(nextFid' - nextFid) -> Types] :
            \A ids \in [1..Len(SelectSeq(types, IsImage)) -> IdSet], ctx \in BOOLEAN :
               (ids # <<>> /\ HandleFilesSelected(types, ids, ctx)) =>
                  LET old == Registry
                      images == {i \in DOMAIN types : IsImage(types[i])}
                  IN  /\ Len(files') = Len(old) + Cardinality(images)
                      /\ SubSeq(files', 1, Len(old)) = old
                      /\ \A m \in 1..Cardinality(images) :
                            LET job == files'[Len(old) + m]
                            IN  /\ job.status = "converting"
                                /\ job.convertedUrl = NoUrl
                                /\ job.convertedSize = NoSize
                                /\ job.error = NoErr
                                /\ job.id = ids[m]
                                /\ job.originalFile.fid - nextFid + 1 \in images
                                /\ Cardinality({i \in images :
                                      i <= job.originalFile.fid - nextFid + 1}) = m]_vars

\* C9 witness: a second selection was appended after a job of the first.
C9_Witness ==
    /\ Len(files) = 2
    /\ Len(batches) = 2

\* C10: once a job of the registry is converted or failed, its status, result
\* and reason never change while it is in the registry.
C10_TerminalJobNeverChanges ==
    [][\A f \in Fids : \A i \in RowsOf(files, f) : \A k \in RowsOf(files', f) :
          files[i].status # "converting" =>
             /\ files'[k].status = files[i].status
             /\ files'[k].convertedUrl = files[i].convertedUrl
             /\ files'[k].convertedSize = files[i].convertedSize
             /\ files'[k].error = files[i].error]_vars


\* The jobs the state knows, as <<file, id>>: those of the registry and those
\* of the running batches.
KnownJobs ==
    {<<files[i].originalFile.fid, files[i].id>> : i \in DOMAIN files}
       \cup UNION {{<<batches[b][j].originalFile.fid, batches[b][j].id>> :
                       j \in DOMAIN batches[b]} : b \in DOMAIN batches}

\* C11: job ids are unique: no two jobs, of one batch or of different
\* batches, have the same id.
C11_IdsUnique == \A x, y \in KnownJobs : x[2] = y[2] => x[1] = y[1]


\* The media types of Types that are image types.
ImageTypes == {"image/png"}

FidsOf(fs) == {fs[i].originalFile.fid : i \in DOMAIN fs}

\* C12: a selection creates a job for each of its image files and for no
\* other file; a selection without an image file creates no job and leaves
\* the registry, the updates issued and the running batches as they were.
C12_OnlyImagesBecomeJobs ==
    [][nextFid' # nextFid =>
         \A types \in [1..(nextFid' - nextFid) -> Types] :
            \A ids \in [1..Len(SelectSeq(types, IsImage)) -> IdSet], ctx \in BOOLEAN :
               HandleFilesSelected(types, ids, ctx) =>
                  LET images == {nextFid + i - 1 : i \in {k \in DOMAIN types :
                                                           types[k] \in ImageTypes}}
                  IN  /\ FidsOf(files') \ FidsOf(Registry) = images
                      /\ \A i \in DOMAIN files' : files'[i].originalType \in ImageTypes
                      /\ images = {} =>
                            files' = files /\ queue' = queue /\ batches' = batches]_vars

\* C12 witness: of a selection of a text file and an image, in this order,
\* only the image is in the registry.
C12_Witness ==
    /\ nextFid = 3
    /\ nextUrl = 1
    /\ Len(files) = 1
    /\ files[1].originalFile.fid = 2
    /\ Len(batches) = 1
    /\ batches[1][1].originalFile.fid = 2


\* The conversion of job j of batch b fails in this step: decode fails, a
\* statement of onload throws, no drawing context, or no blob.
Fails(b, j) ==
    \E ctx \in BOOLEAN :
        \/ ImgOnerror(b, j, ctx)
        \/ ImgOnload(b, j, TRUE, ctx)
        \/ ~batches[b][j].ctx /\ ImgOnload(b, j, FALSE, ctx)
        \/ ToBlobCallback(b, j, FALSE, ctx)

\* C13: a failure of a job's conversion makes that job failed with a reason
\* and changes no other job and not the membership of the registry, and the
\* next job of the batch is started.
C13_FailureOnlyFailsItsJob ==
    [][\A b \in DOMAIN batches : \A j \in DOMAIN batches[b] :
          Fails(b, j) =>
             LET f == batches[b][j].originalFile.fid
                 old == Registry
                 new == ApplyAll(queue', files')
             IN  /\ Len(new) = Len(old)
                 /\ \A k \in DOMAIN old :
                       IF old[k].originalFile.fid = f
                       THEN new[k].status = "error" /\ new[k].error # NoErr
                       ELSE new[k] = old[k]
                 /\ j < Len(batches[b]) =>
                       \E c \in DOMAIN batches' :
                          /\ j + 1 \in DOMAIN batches'[c]
                          /\ batches'[c][j + 1].originalFile = batches[b][j + 1].originalFile
                          /\ InFlight(batches'[c][j + 1].st)]_vars


\* C14: the download of a file is named by the file's name with only its
\* final extension removed (the name itself when it has no dot), followed by
\* ".webp", for names with no dot, one dot and several dots.
C14_DownloadNameStripsFinalExtension ==
    download # NoName =>
       LET dots == {i \in DOMAIN name : name[i] = "."}
           last == IF dots = {} THEN Len(name) + 1
                   ELSE CHOOSE i \in dots : \A k \in dots : k <= i
       IN  download = SubSeq(name, 1, last - 1) \o Webp


\* C15: for every quality of 0..100 the selector shows the tier Low for
\* 0..49, Average for 50..79 and High for 80..100, and the value
\* min(quality, 99.9): the quality itself below 100 and 99.9 for 100
\* (values in tenths).
C15_TierAndDisplayedValue ==
    shown # NoShown =>
       /\ shown.label = (CASE quality \in 0..49   -> "Low"
                           [] quality \in 50..79  -> "Average"
                           [] quality \in 80..100 -> "High")
       /\ shown.display = IF quality = 100 THEN 999 ELSE 10 * quality

\* The selector rendered at the three tier bounds it can be set to.
C15_Witness ==
    /\ shown # NoShown
    /\ quality \in {50, 80, 100}
    /\ quality = 100 => shown.display = 999 /\ shown.label = "High"
    /\ quality = 50 => shown.label = "Average"


\* A job whose fields agree with its status.
Consistent(f) ==
    /\ f.status \in {"converting", "converted", "error"}
    /\ (f.convertedUrl # NoUrl) = (f.status = "converted")
    /\ (f.convertedSize # NoSize) = (f.status = "converted")
    /\ (f.error # NoErr) = (f.status = "error")

\* C16: in every state of the registry each job has a result (handle and
\* size) exactly when it is converted and a failure reason exactly when it
\* failed; a converting job has neither.
C16_FieldsAgreeWithStatus ==
    /\ \A i \in DOMAIN files : Consistent(files[i])
    /\ \A i \in DOMAIN Registry : Consistent(Registry[i])


\* The jobs of the running calls, by file: <<fid, job of the pipe>>.
PipeJobs(bs) ==
    UNION {{<<bs[b][j].originalFile.fid, bs[b][j]>> : j \in DOMAIN bs[b]} :
              b \in DOMAIN bs}

\* The jobs whose conversion is started by the step.
StartedNow ==
    {x \in PipeJobs(batches') :
        /\ InFlight(x[2].st)
        /\ \A y \in PipeJobs(batches) : y[1] = x[1] => y[2].st = "waiting"}

\* C17 as stated: the quality a job is encoded with is the quality setting
\* at the moment the job's conversion starts, for every job of a batch.
C17_QualityOfTheMomentTheJobStarts ==
    [][\A x \in StartedNow : x[2].quality = quality']_vars

\* C17: the quality a job is encoded with is the quality setting at the
\* moment the job's batch is submitted; no later change of the setting, before
\* or after the job's conversion starts, affects it.
C17_QualityOfTheSubmission ==
    [][\A x \in PipeJobs(batches') :
          IF \E y \in PipeJobs(batches) : y[1] = x[1]
          THEN \A y \in PipeJobs(batches) : y[1] = x[1] => x[2].quality = y[2].quality
          ELSE x[2].quality = quality]_vars

\* The second job of a batch is being converted with the quality of the
\* submission after the setting was changed while the first was converted.
C17_Witness ==
    /\ quality = 50
    /\ \E b \in DOMAIN batches :
          /\ Len(batches[b]) = 2
          /\ batches[b][1].st = "done"
          /\ InFlight(batches[b][2].st)
          /\ batches[b][2].quality = DefaultQuality


\* C18: a call of the single-job pipeline fails with the reason of the first
\* stage that fails, in the order media type, decode, drawing context, encode
\* (no statement throwing); it resolves with a handle only when all four
\* succeed; and it settles once: never two outcomes, never a handle and a
\* reason.
C18_FirstFailingStageAndOneOutcome ==
    /\ Len(run.settled) <= 1
    /\ run.stage = "settled" => Len(run.settled) = 1
    /\ run.stage = "settled" /\ ~run.throws =>
          run.settled[1] =
             (CASE run.type \notin ImageTypes -> "Unsupported file format"
                [] run.type \in ImageTypes /\ ~run.loads -> "Failed to load image"
                [] run.type \in ImageTypes /\ run.loads /\ ~run.ctx ->
                      "Failed to get drawing context"
                [] run.type \in ImageTypes /\ run.loads /\ run.ctx /\ ~run.blob ->
                      "Failed to convert image to WebP"
                [] OTHER -> "resolve")
    /\ run.settled = <<"resolve">> =>
          run.type \in ImageTypes /\ run.loads /\ run.ctx /\ run.blob

\* A call on a file that is no image, whose image would neither decode nor
\* give a drawing context, has settled with the reason of the media type.
C18_Witness ==
    /\ run.stage = "settled"
    /\ run.type \notin ImageTypes /\ ~run.loads /\ ~run.ctx /\ ~run.blob /\ ~run.throws
    /\ run.settled = <<"Unsupported file format">>

\* C19: for every quality q of 0..100 the encoder is given max(10q - 1, 0)
\* thousandths: never a negative value, less than its maximum of 1000 even
\* for q = 100, and no less than what it is given for a lower quality.
C19_EffectiveQuality ==
    run.stage = "encoding" =>
       /\ run.toBlobQuality = IF 10 * run.quality - 1 > 0 THEN 10 * run.quality - 1 ELSE 0
       /\ run.toBlobQuality >= 0
       /\ run.toBlobQuality < 1000
       /\ \A p \in MinQuality..run.quality : EffectiveQuality(p) <= run.toBlobQuality

\* The encoder called for the two ends of the range: 0 and 999 thousandths.
C19_Witness ==
    /\ run.stage = "encoding"
    /\ \/ run.quality = 0 /\ run.toBlobQuality = 0
       \/ run.quality = 100 /\ run.toBlobQuality = 999


\* C20: within a batch the conversions are started one at a time in
\* selection order: at most one job of a batch is in flight, and when job
\* k+1 of a batch is started every job before it is done, every job after it
\* waits, job k was in flight until this step and its terminal update is the
\* last update issued.  Jobs of different batches are in flight together.
C20_NextJobStartsAfterUpdateOfPrevious ==
    /\ [](\A b \in DOMAIN batches :
             Cardinality({j \in DOMAIN batches[b] : InFlight(batches[b][j].st)}) <= 1)
    /\ [][\A b \in DOMAIN batches' : \A j \in DOMAIN batches'[b] :
            <<batches'[b][j].originalFile.fid, batches'[b][j]>> \in StartedNow =>
               /\ \A k \in 1..(j - 1) : batches'[b][k].st = "done"
               /\ \A k \in (j + 1)..Len(batches'[b]) : batches'[b][k].st = "waiting"
               /\ j > 1 =>
                     /\ \E y \in PipeJobs(batches) :
                           /\ y[1] = batches'[b][j - 1].originalFile.fid
                           /\ InFlight(y[2].st)
                     /\ mounted =>
                           /\ queue' # <<>>
                           /\ queue'[Len(queue')].op \in {"converted", "error"}
                           /\ queue'[Len(queue')].id = batches'[b][j - 1].id
                           /\ Len(queue') = Len(queue) + 1]_vars

\* The second job of a batch was started with the update of the first one
\* issued and not yet rendered.
C20_Witness ==
    /\ queue # <<>>
    /\ \E b \in DOMAIN batches :
          /\ Len(batches[b]) = 2
          /\ batches[b][1].st = "done"
          /\ batches[b][2].st = "loading"
          /\ queue[Len(queue)].id = batches[b][1].id
          /\ files[1].status = "converting"

=============================================================================
